---- MODULE Spec2Model ----
(***************************************************************************)
(* A model of the SIP calculator backend: the calculation engine           *)
(* (SIPCalculator), the four POST endpoints of app.py, the validator,      *)
(* the error_handler decorator and log_calculation of api_utils.py, under  *)
(* the default bounds of config.py.                                        *)
(*                                                                         *)
(* Numbers.  Python floats are modelled as exact rationals                 *)
(* [sg, n, d] (sign, numerator and denominator magnitudes); a magnitude is *)
(* a little-endian sequence of limbs in base BASE, because the powers the  *)
(* formulas take do not fit a machine integer.  The rounding error of      *)
(* double precision is therefore not modelled; round(x, 2) is modelled on  *)
(* the exact value.                                                        *)
(***************************************************************************)
EXTENDS Integers, Sequences, FiniteSets, TLC

\* ------------------------------------------------------------------------
\* Magnitudes: natural numbers of any size
\* ------------------------------------------------------------------------
\* The(S) is the element of a singleton S.  The({e(v) : v \in {x}}) therefore
\* is e(x) with x evaluated once and named v, which is how the operators below
\* name the values they use more than once.
The(S) == CHOOSE v \in S : TRUE

BASE == 10000

MagLimb(x, i) == IF i <= Len(x) THEN x[i] ELSE 0

\* the highest index in lo..hi holding a non-zero limb, 0 when there is none
RECURSIVE MagTop(_, _, _)
MagTop(x, lo, hi) ==
    IF lo > hi THEN 0
    ELSE IF lo = hi THEN (IF x[lo] # 0 THEN lo ELSE 0)
    ELSE The({IF h # 0 THEN h ELSE MagTop(x, lo, (lo + hi) \div 2) :
              h \in {MagTop(x, (lo + hi) \div 2 + 1, hi)}})

\* x without its leading zero limbs
MagNorm(x0) == The({SubSeq(x, 1, MagTop(x, 1, Len(x))) : x \in {x0}})

RECURSIVE MagOfNat(_)
MagOfNat(k) == IF k = 0 THEN <<>> ELSE <<k % BASE>> \o MagOfNat(k \div BASE)

\* compares limbs lo..hi of x and y from the top: -1, 0 or 1
RECURSIVE MagCmpRange(_, _, _, _)
MagCmpRange(x, y, lo, hi) ==
    IF lo > hi THEN 0
    ELSE IF lo = hi
    THEN (IF x[lo] < y[lo] THEN -1 ELSE IF x[lo] > y[lo] THEN 1 ELSE 0)
    ELSE The({IF h # 0 THEN h ELSE MagCmpRange(x, y, lo, (lo + hi) \div 2) :
              h \in {MagCmpRange(x, y, (lo + hi) \div 2 + 1, hi)}})

MagCmp(x0, y0) ==
    The({IF Len(x) < Len(y) THEN -1
         ELSE IF Len(x) > Len(y) THEN 1
         ELSE MagCmpRange(x, y, 1, Len(x)) : x \in {x0}, y \in {y0}})

\* limbs lo..hi of x + y with carry c in: [r |-> limbs, c |-> carry out]
RECURSIVE MagAddRange(_, _, _, _, _)
MagAddRange(x, y, lo, hi, c) ==
    IF lo = hi
    THEN The({[r |-> <<s % BASE>>, c |-> s \div BASE] :
              s \in {MagLimb(x, lo) + MagLimb(y, lo) + c}})
    ELSE The({The({[r |-> L.r \o H.r, c |-> H.c] :
                   H \in {MagAddRange(x, y, (lo + hi) \div 2 + 1, hi, L.c)}}) :
              L \in {MagAddRange(x, y, lo, (lo + hi) \div 2, c)}})

MagAdd(x0, y0) ==
    The({IF x = <<>> THEN y
         ELSE IF y = <<>> THEN x
         ELSE The({IF s.c = 0 THEN s.r ELSE Append(s.r, s.c) :
                   s \in {MagAddRange(x, y, 1,
                                      IF Len(x) >= Len(y) THEN Len(x) ELSE Len(y), 0)}}) :
         x \in {x0}, y \in {y0}})

\* limbs lo..hi of x - y with borrow b in: [r |-> limbs, c |-> borrow out]
RECURSIVE MagSubRange(_, _, _, _, _)
MagSubRange(x, y, lo, hi, b) ==
    IF lo = hi
    THEN The({IF s < 0 THEN [r |-> <<s + BASE>>, c |-> 1] ELSE [r |-> <<s>>, c |-> 0] :
              s \in {x[lo] - MagLimb(y, lo) - b}})
    ELSE The({The({[r |-> L.r \o H.r, c |-> H.c] :
                   H \in {MagSubRange(x, y, (lo + hi) \div 2 + 1, hi, L.c)}}) :
              L \in {MagSubRange(x, y, lo, (lo + hi) \div 2, b)}})

\* x - y for x >= y
MagSub(x0, y0) ==
    The({IF x = <<>> THEN x ELSE MagNorm(MagSubRange(x, y, 1, Len(x), 0).r) :
         x \in {x0}, y \in {y0}})

\* limbs lo..hi of x * s with carry c in, s a machine integer of at most 100000
RECURSIVE MagMulSmallRange(_, _, _, _, _)
MagMulSmallRange(x, s, lo, hi, c) ==
    IF lo = hi
    THEN The({[r |-> <<p % BASE>>, c |-> p \div BASE] : p \in {x[lo] * s + c}})
    ELSE The({The({[r |-> L.r \o H.r, c |-> H.c] :
                   H \in {MagMulSmallRange(x, s, (lo + hi) \div 2 + 1, hi, L.c)}}) :
              L \in {MagMulSmallRange(x, s, lo, (lo + hi) \div 2, c)}})

MagMulSmall(x0, s0) ==
    The({IF s = 0 \/ x = <<>> THEN <<>>
         ELSE The({m.r \o MagOfNat(m.c) : m \in {MagMulSmallRange(x, s, 1, Len(x), 0)}}) :
         x \in {x0}, s \in {s0}})

\* x * BASE^k
MagShift(x0, k) == The({IF x = <<>> THEN x ELSE [j \in 1..k |-> 0] \o x : x \in {x0}})

\* x * (limbs lo..hi of y), not shifted by lo - 1
RECURSIVE MagMulRange(_, _, _, _)
MagMulRange(x, y, lo, hi) ==
    IF lo = hi THEN MagMulSmall(x, y[lo])
    ELSE MagAdd(MagMulRange(x, y, lo, (lo + hi) \div 2),
                MagShift(MagMulRange(x, y, (lo + hi) \div 2 + 1, hi),
                         (lo + hi) \div 2 + 1 - lo))

MagMul(x0, y0) ==
    The({IF x = <<>> \/ y = <<>> THEN <<>>
         ELSE IF Len(x) >= Len(y) THEN MagMulRange(x, y, 1, Len(y))
         ELSE MagMulRange(y, x, 1, Len(x)) : x \in {x0}, y \in {y0}})

\* x^n by squaring
RECURSIVE MagPow(_, _)
MagPow(x, n) ==
    IF n = 0 THEN <<1>>
    ELSE IF n = 1 THEN x
    ELSE The({IF n % 2 = 0 THEN MagMul(h, h) ELSE MagMul(MagMul(h, h), x) :
              h \in {MagPow(x, n \div 2)}})

\* the largest d in lo..hi with y * d <= cur
RECURSIVE MagDigit(_, _, _, _)
MagDigit(cur, y, lo, hi) ==
    IF lo = hi THEN lo
    ELSE IF MagCmp(MagMulSmall(y, (lo + hi + 1) \div 2), cur) <= 0
    THEN MagDigit(cur, y, (lo + hi + 1) \div 2, hi)
    ELSE MagDigit(cur, y, lo, (lo + hi + 1) \div 2 - 1)

\* long division by y > 0 over limbs hi down to lo of x, rem the remainder so far:
\* [q |-> the quotient's limbs hi down to lo, r |-> remainder]
RECURSIVE MagDivRange(_, _, _, _, _)
MagDivRange(x, y, lo, hi, rem) ==
    IF lo = hi
    THEN The({The({[q |-> <<d>>,
                    r |-> IF d = 0 THEN cur ELSE MagSub(cur, MagMulSmall(y, d))] :
                   d \in {IF MagCmp(cur, y) < 0 THEN 0
                          ELSE MagDigit(cur, y, 1, BASE - 1)}}) :
              cur \in {MagNorm(<<x[lo]>> \o rem)}})
    ELSE The({The({[q |-> H.q \o L.q, r |-> L.r] :
                   L \in {MagDivRange(x, y, lo, (lo + hi) \div 2, H.r)}}) :
              H \in {MagDivRange(x, y, (lo + hi) \div 2 + 1, hi, rem)}})

\* [q |-> x \div y, r |-> x % y] for y > 0
MagDivMod(x0, y0) ==
    The({IF x = <<>> THEN [q |-> <<>>, r |-> <<>>]
         ELSE The({[q |-> MagNorm([i \in 1..Len(x) |-> dm.q[Len(x) + 1 - i]]),
                    r |-> dm.r] :
                   dm \in {MagDivRange(x, y, 1, Len(x), <<>>)}}) :
         x \in {x0}, y \in {y0}})

MagIsOdd(x) == x # <<>> /\ (x[1] % 2 = 1)

\* ------------------------------------------------------------------------
\* Python numbers: a float is an exact rational [sg, n, d], d > 0
\* ------------------------------------------------------------------------
RZero == [sg |-> 0, n |-> <<>>, d |-> <<1>>]

RMake(sg, n0, d) ==
    The({IF n = <<>> \/ sg = 0 THEN RZero ELSE [sg |-> sg, n |-> n, d |-> d] :
         n \in {n0}})

RInt(k) == IF k = 0 THEN RZero
           ELSE IF k < 0 THEN [sg |-> -1, n |-> MagOfNat(-k), d |-> <<1>>]
           ELSE [sg |-> 1, n |-> MagOfNat(k), d |-> <<1>>]

\* p / q for machine integers, q > 0
RFrac(p, q) == IF p = 0 THEN RZero
               ELSE IF p < 0 THEN [sg |-> -1, n |-> MagOfNat(-p), d |-> MagOfNat(q)]
               ELSE [sg |-> 1, n |-> MagOfNat(p), d |-> MagOfNat(q)]

RIsZero(a) == a.sg = 0

RNeg(a0) == The({[sg |-> -a.sg, n |-> a.n, d |-> a.d] : a \in {a0}})

RAbs(a0) == The({[sg |-> a.sg * a.sg, n |-> a.n, d |-> a.d] : a \in {a0}})

\* x/d + y/d for signed magnitudes of signs sx and sy, neither 0
RSum(sx, x0, sy, y0, d) ==
    The({IF sx = sy THEN RMake(sx, MagAdd(x, y), d)
         ELSE The({IF c = 0 THEN RZero
                   ELSE IF c > 0 THEN RMake(sx, MagSub(x, y), d)
                   ELSE RMake(sy, MagSub(y, x), d) : c \in {MagCmp(x, y)}}) :
         x \in {x0}, y \in {y0}})

\* a + b
RAdd(a0, b0) ==
    The({IF a.sg = 0 THEN b
         ELSE IF b.sg = 0 THEN a
         ELSE IF a.d = b.d THEN RSum(a.sg, a.n, b.sg, b.n, a.d)
         ELSE RSum(a.sg, MagMul(a.n, b.d), b.sg, MagMul(b.n, a.d), MagMul(a.d, b.d)) :
         a \in {a0}, b \in {b0}})

\* a - b
RSub(a, b) == RAdd(a, RNeg(b))

\* a * b
RMul(a0, b0) ==
    The({IF a.sg = 0 \/ b.sg = 0 THEN RZero
         ELSE [sg |-> a.sg * b.sg, n |-> MagMul(a.n, b.n), d |-> MagMul(a.d, b.d)] :
         a \in {a0}, b \in {b0}})

\* a / b for b # 0 (the callers raise ZeroDivisionError themselves)
RDiv(a0, b0) ==
    The({IF a.sg = 0 THEN RZero
         ELSE [sg |-> a.sg * b.sg, n |-> MagMul(a.n, b.d), d |-> MagMul(a.d, b.n)] :
         a \in {a0}, b \in {b0}})

\* a ** k for an integer k; a # 0 when k < 0
RPow(a0, k0) ==
    The({IF k = 0 THEN RInt(1)
         ELSE IF a.sg = 0 THEN RZero
         ELSE IF k < 0
         THEN [sg |-> IF a.sg < 0 /\ (-k) % 2 = 1 THEN -1 ELSE 1,
               n  |-> MagPow(a.d, -k), d |-> MagPow(a.n, -k)]
         ELSE [sg |-> IF a.sg < 0 /\ k % 2 = 1 THEN -1 ELSE 1,
               n  |-> MagPow(a.n, k), d |-> MagPow(a.d, k)] :
         a \in {a0}, k \in {k0}})

\* -1, 0 or 1 as a < b, a = b, a > b
RCmp(a, b) == RSub(a, b).sg

RLt(a, b) == RCmp(a, b) < 0
RLe(a, b) == RCmp(a, b) <= 0
REq(a, b) == RCmp(a, b) = 0

\* round(a, 2): the nearest multiple of 1/100, a tie going to the even one
RHundred == <<100>>

round2(a0) ==
    The({IF a.sg = 0 THEN RZero
         ELSE The({The({IF c > 0 \/ (c = 0 /\ MagIsOdd(dm.q))
                        THEN RMake(a.sg, MagAdd(dm.q, <<1>>), RHundred)
                        ELSE RMake(a.sg, dm.q, RHundred) :
                        c \in {MagCmp(MagMulSmall(dm.r, 2), a.d)}}) :
                   dm \in {MagDivMod(MagMulSmall(a.n, 100), a.d)}}) :
         a \in {a0}})

RECURSIVE MagToNat(_)
MagToNat(x) == IF x = <<>> THEN 0 ELSE x[1] + BASE * MagToNat(Tail(x))

\* ------------------------------------------------------------------------
\* Python values, exceptions and conversions
\* ------------------------------------------------------------------------
None == [kind |-> "None"]

\* the outcome of a call: a returned value or a raised exception
Return(v) == [k |-> "return", v |-> v]
Raise(type, text) == [k |-> "raise", type |-> type, text |-> text]

\* raw JSON values of a request body
JNum(k)  == [kind |-> "num", v |-> RInt(k)]
JReal(a) == [kind |-> "num", v |-> a]
JStr(t)  == [kind |-> "str", s |-> t]
JNull    == [kind |-> "null"]
JList    == [kind |-> "list"]

\* type(v).__name__ of a value that is neither a number nor a string
type_name(v) == IF v.kind = "null" THEN "NoneType" ELSE v.kind

\* float(v)
py_float(v) ==
    IF v.kind = "num" THEN Return(v.v)
    ELSE IF v.kind = "str"
    THEN Raise("ValueError", "could not convert string to float: '" \o v.s \o "'")
    ELSE Raise("TypeError",
               "float() argument must be a string or a real number, not '"
                   \o type_name(v) \o "'")

\* int(v): a number is truncated towards zero
py_int(v) ==
    IF v.kind = "num"
    THEN Return(v.v.sg * MagToNat(MagDivMod(v.v.n, v.v.d).q))
    ELSE IF v.kind = "str"
    THEN Raise("ValueError", "invalid literal for int() with base 10: '" \o v.s \o "'")
    ELSE Raise("TypeError",
               "int() argument must be a string, a bytes-like object or a real number, not '"
                   \o type_name(v) \o "'")

\* ------------------------------------------------------------------------
\* SIPCalculator (app.py)
\* ------------------------------------------------------------------------
\* calculate_sip(monthly_investment, annual_return_rate, time_period_years):
\* every exception of the body is turned into a failure dict
sip_return(monthly_investment, annual_return_rate, time_period_years, total_months, future_value, total_invested) ==
    [success            |-> TRUE,
     total_invested     |-> round2(total_invested),
     estimated_returns  |-> round2(RSub(future_value, total_invested)),
     total_value        |-> round2(future_value),
     monthly_investment |-> monthly_investment,
     annual_return_rate |-> annual_return_rate,
     time_period_years  |-> time_period_years,
     total_months       |-> total_months]

\* a faulty variant of calculate_sip without the zero-rate branch: at rate 0 the
\* division by monthly_rate raises ZeroDivisionError, which the except clause
\* turns into a failure dict
calculate_sip_unguarded(monthly_investment, annual_return_rate, time_period_years) ==
    The({IF RIsZero(monthly_rate)
         THEN [success |-> FALSE, error |-> "float division by zero"]
         ELSE IF RIsZero(RAdd(RInt(1), monthly_rate)) /\ total_months < 0
         THEN [success |-> FALSE, error |-> "0.0 cannot be raised to a negative power"]
         ELSE The({sip_return(monthly_investment, annual_return_rate, time_period_years,
                              total_months, future_value, total_invested) :
                   future_value \in
                       {RMul(RMul(monthly_investment,
                                  RDiv(RSub(RPow(RAdd(RInt(1), monthly_rate),
                                                 total_months),
                                            RInt(1)),
                                       monthly_rate)),
                             RAdd(RInt(1), monthly_rate))},
                   total_invested \in {RMul(monthly_investment, RInt(total_months))}}) :
         monthly_rate \in {RDiv(RDiv(annual_return_rate, RInt(12)), RInt(100))},
         total_months \in {time_period_years * 12}})

calculate_sip(monthly_investment, annual_return_rate, time_period_years) ==
    The({IF ~RIsZero(monthly_rate) /\ RIsZero(RAdd(RInt(1), monthly_rate))
            /\ total_months < 0
         THEN [success |-> FALSE, error |-> "0.0 cannot be raised to a negative power"]
         ELSE The({sip_return(monthly_investment, annual_return_rate, time_period_years,
                              total_months, future_value, total_invested) :
                   future_value \in
                       {IF RIsZero(monthly_rate)
                        THEN RMul(monthly_investment, RInt(total_months))
                        ELSE RMul(RMul(monthly_investment,
                                       RDiv(RSub(RPow(RAdd(RInt(1), monthly_rate),
                                                      total_months),
                                                 RInt(1)),
                                            monthly_rate)),
                                  RAdd(RInt(1), monthly_rate))},
                   total_invested \in {RMul(monthly_investment, RInt(total_months))}}) :
         monthly_rate \in {RDiv(RDiv(annual_return_rate, RInt(12)), RInt(100))},
         total_months \in {time_period_years * 12}})

\* calculate_lumpsum(lumpsum_amount, annual_return_rate, time_period_years)
lumpsum_return(lumpsum_amount, annual_return_rate, time_period_years, future_value) ==
    [success            |-> TRUE,
     total_invested     |-> round2(lumpsum_amount),
     estimated_returns  |-> round2(RSub(future_value, lumpsum_amount)),
     total_value        |-> round2(future_value),
     lumpsum_amount     |-> lumpsum_amount,
     annual_return_rate |-> annual_return_rate,
     time_period_years  |-> time_period_years]

calculate_lumpsum(lumpsum_amount, annual_return_rate, time_period_years) ==
    The({IF RIsZero(base) /\ time_period_years < 0
         THEN [success |-> FALSE, error |-> "0.0 cannot be raised to a negative power"]
         ELSE The({lumpsum_return(lumpsum_amount, annual_return_rate, time_period_years,
                                  future_value) :
                   future_value \in {RMul(lumpsum_amount,
                                          RPow(base, time_period_years))}}) :
         base \in {RAdd(RInt(1), RDiv(annual_return_rate, RInt(100)))}})

\* a faulty variant of yearly_entry: the future value of an ordinary annuity,
\* without the trailing factor (1 + monthly_rate)
yearly_entry_ordinary(monthly_investment, monthly_rate, year) ==
    The({[year              |-> year,
          total_invested    |-> round2(total_invested),
          estimated_returns |-> round2(RSub(future_value, total_invested)),
          total_value       |-> round2(future_value)] :
         future_value \in
             {IF RIsZero(monthly_rate)
              THEN RMul(monthly_investment, RInt(year * 12))
              ELSE RMul(monthly_investment,
                        RDiv(RSub(RPow(RAdd(RInt(1), monthly_rate), year * 12),
                                  RInt(1)),
                             monthly_rate))},
         total_invested \in {RMul(monthly_investment, RInt(year * 12))}})

\* one entry of the yearly breakdown: the body of the loop for one year
yearly_entry(monthly_investment, monthly_rate, year) ==
    The({[year              |-> year,
          total_invested    |-> round2(total_invested),
          estimated_returns |-> round2(RSub(future_value, total_invested)),
          total_value       |-> round2(future_value)] :
         future_value \in
             {IF RIsZero(monthly_rate)
              THEN RMul(monthly_investment, RInt(year * 12))
              ELSE RMul(RMul(monthly_investment,
                             RDiv(RSub(RPow(RAdd(RInt(1), monthly_rate), year * 12),
                                       RInt(1)),
                                  monthly_rate)),
                        RAdd(RInt(1), monthly_rate))},
         total_invested \in {RMul(monthly_investment, RInt(year * 12))}})

\* a faulty variant of generate_yearly_breakdown, looping over
\* range(1, time_period_years): the last year is lost
generate_yearly_breakdown_short(monthly_investment, annual_return_rate, time_period_years) ==
    The({[year \in 1..(time_period_years - 1) |->
             yearly_entry(monthly_investment, monthly_rate, year)] :
         monthly_rate \in {RDiv(RDiv(annual_return_rate, RInt(12)), RInt(100))}})

\* generate_yearly_breakdown: one entry per year of range(1, time_period_years + 1);
\* nothing is caught here
generate_yearly_breakdown(monthly_investment, annual_return_rate, time_period_years) ==
    The({[year \in 1..time_period_years |->
             yearly_entry(monthly_investment, monthly_rate, year)] :
         monthly_rate \in {RDiv(RDiv(annual_return_rate, RInt(12)), RInt(100))}})

\* ------------------------------------------------------------------------
\* Config (config.py): the default bounds, read through current_app.config
\* ------------------------------------------------------------------------
MIN_INVESTMENT  == 500
MAX_INVESTMENT  == 100000
MIN_RETURN_RATE == 1
MAX_RETURN_RATE == 25
MIN_TIME_PERIOD == 1
MAX_TIME_PERIOD == 50

\* ------------------------------------------------------------------------
\* APIUtils.validate_sip_parameters (api_utils.py)
\* ------------------------------------------------------------------------
\* data is a dict: a function from the field names it holds to raw JSON values
ValidationError(text) == Raise("ValidationError", text)

\* the first field of the list that data does not hold, "" when it holds all
RECURSIVE first_missing(_, _)
first_missing(fields, data) ==
    IF fields = <<>> THEN ""
    ELSE IF Head(fields) \notin DOMAIN data THEN Head(fields)
    ELSE first_missing(Tail(fields), data)

\* a faulty variant of except_ValueError: the except clause is absent and the
\* ValueError of float() or int() leaves the validator
except_ValueError_absent(exc) == exc

\* a ValueError raised inside the try block becomes the invalid-numeric
\* ValidationError; any other exception leaves the validator as it is
except_ValueError(exc) ==
    IF exc.type = "ValueError" THEN ValidationError("Invalid numeric values provided")
    ELSE exc

validate_sip_parameters(data) ==
    LET required_fields == <<"monthlyInvestment", "expectedReturn", "timePeriod">>
        missing == first_missing(required_fields, data)
        monthly_investment == py_float(data["monthlyInvestment"])
        expected_return    == py_float(data["expectedReturn"])
        time_period        == py_int(data["timePeriod"])
        mode == IF "mode" \in DOMAIN data THEN data["mode"] ELSE JStr("sip")
    IN  IF missing # "" THEN ValidationError("Missing required field: " \o missing)
        ELSE IF monthly_investment.k = "raise" THEN except_ValueError(monthly_investment)
        ELSE IF RLt(monthly_investment.v, RInt(MIN_INVESTMENT))
        THEN ValidationError("Monthly investment must be at least ₹500")
        ELSE IF RLt(RInt(MAX_INVESTMENT), monthly_investment.v)
        THEN ValidationError("Monthly investment cannot exceed ₹100000")
        ELSE IF expected_return.k = "raise" THEN except_ValueError(expected_return)
        ELSE IF RLt(expected_return.v, RInt(MIN_RETURN_RATE))
        THEN ValidationError("Expected return must be at least 1.0%")
        ELSE IF RLt(RInt(MAX_RETURN_RATE), expected_return.v)
        THEN ValidationError("Expected return cannot exceed 25.0%")
        ELSE IF time_period.k = "raise" THEN except_ValueError(time_period)
        ELSE IF time_period.v < MIN_TIME_PERIOD
        THEN ValidationError("Time period must be at least 1 year")
        ELSE IF time_period.v > MAX_TIME_PERIOD
        THEN ValidationError("Time period cannot exceed 50 years")
        ELSE IF mode \notin {JStr("sip"), JStr("lumpsum")}
        THEN ValidationError("Mode must be either \"sip\" or \"lumpsum\"")
        ELSE Return([monthlyInvestment |-> monthly_investment.v,
                     expectedReturn    |-> expected_return.v,
                     timePeriod        |-> time_period.v,
                     mode              |-> mode.s])

\* ------------------------------------------------------------------------
\* The endpoints (app.py).  An endpoint's result is the response, the engine
\* calls it made (ran) and the exception its except clause caught, if any.
\* ------------------------------------------------------------------------
Http(status, body) == [k |-> "http", status |-> status, body |-> body]

\* jsonify({'success': False, 'error': ...}): the message as its parts
Failure(status, parts) == Http(status, [success |-> FALSE, error |-> parts])

Answer(resp, ran, caught) == [resp |-> resp, ran |-> ran, caught |-> caught]

\* a faulty variant of outside: the comparisons are not strict, so that a value
\* on a bound is out of range
outside_or_on(x, lo, hi) == RLe(x, RInt(lo)) \/ RLe(RInt(hi), x)

\* x < lo or x > hi, the form of the three range checks of calculate
outside(x, lo, hi) == RLt(x, RInt(lo)) \/ RLt(RInt(hi), x)

\* POST /api/calculate
calculate_except(exc) ==
    IF exc.type = "ValueError"
    THEN Answer(Failure(400, <<"Invalid input values">>), <<>>, exc)
    ELSE Answer(Failure(500, <<"Calculation error: ", exc.text>>), <<>>, exc)

calculate(data) ==
    LET required_fields == <<"monthlyInvestment", "expectedReturn", "timePeriod", "mode">>
        missing == first_missing(required_fields, data)
        monthly_investment == py_float(data["monthlyInvestment"])
        annual_return_rate == py_float(data["expectedReturn"])
        time_period_years  == py_int(data["timePeriod"])
        mode == data["mode"]
    IN  IF data = None
        THEN calculate_except(
                 Raise("TypeError", "argument of type 'NoneType' is not iterable"))
        ELSE IF missing # ""
        THEN Answer(Failure(400, <<"Missing required field: ", missing>>), <<>>, None)
        ELSE IF monthly_investment.k = "raise" THEN calculate_except(monthly_investment)
        ELSE IF annual_return_rate.k = "raise" THEN calculate_except(annual_return_rate)
        ELSE IF time_period_years.k = "raise" THEN calculate_except(time_period_years)
        ELSE IF outside(monthly_investment.v, 500, 100000)
        THEN Answer(Failure(400,
                 <<"Monthly investment must be between ₹500 and ₹100,000">>), <<>>, None)
        ELSE IF outside(annual_return_rate.v, 1, 25)
        THEN Answer(Failure(400, <<"Expected return must be between 1% and 25%">>),
                    <<>>, None)
        ELSE IF outside(RInt(time_period_years.v), 1, 50)
        THEN Answer(Failure(400, <<"Time period must be between 1 and 50 years">>),
                    <<>>, None)
        ELSE IF mode = JStr("sip")
        THEN Answer(Http(200, calculate_sip(monthly_investment.v, annual_return_rate.v,
                                            time_period_years.v)),
                    <<"calculate_sip">>, None)
        ELSE IF mode = JStr("lumpsum")
        THEN Answer(Http(200, calculate_lumpsum(monthly_investment.v, annual_return_rate.v,
                                                time_period_years.v)),
                    <<"calculate_lumpsum">>, None)
        ELSE Answer(Failure(400, <<"Invalid mode. Must be \"sip\" or \"lumpsum\"">>),
                    <<>>, None)

\* data[key] as the three unvalidated endpoints read it
subscript(data, key) ==
    IF data = None THEN Raise("TypeError", "'NoneType' object is not subscriptable")
    ELSE IF key \notin DOMAIN data THEN Raise("KeyError", "'" \o key \o "'")
    ELSE Return(data[key])

\* float(data[key]) and int(data[key])
float_of(data, key) ==
    LET item == subscript(data, key)
    IN  IF item.k = "raise" THEN item ELSE py_float(item.v)

int_of(data, key) ==
    LET item == subscript(data, key)
    IN  IF item.k = "raise" THEN item ELSE py_int(item.v)

\* except Exception as e: jsonify({'success': False, 'error': str(e)}), 500
except_Exception(exc) == Answer(Failure(500, <<exc.text>>), <<>>, exc)

\* POST /api/breakdown
get_breakdown(data) ==
    LET monthly_investment == float_of(data, "monthlyInvestment")
        annual_return_rate == float_of(data, "expectedReturn")
        time_period_years  == int_of(data, "timePeriod")
    IN  IF monthly_investment.k = "raise" THEN except_Exception(monthly_investment)
        ELSE IF annual_return_rate.k = "raise" THEN except_Exception(annual_return_rate)
        ELSE IF time_period_years.k = "raise" THEN except_Exception(time_period_years)
        ELSE Answer(Http(200, [success   |-> TRUE,
                               breakdown |-> generate_yearly_breakdown(
                                   monthly_investment.v, annual_return_rate.v,
                                   time_period_years.v)]),
                    <<"generate_yearly_breakdown">>, None)

\* a faulty variant of required_sip_of: the zero-rate branch is taken whatever
\* the rate, the target is spread evenly over the months
required_sip_of_flat(target_amount, annual_return_rate, time_period_years) ==
    IF time_period_years * 12 = 0
    THEN Raise("ZeroDivisionError", "float division by zero")
    ELSE Return(RDiv(target_amount, RInt(time_period_years * 12)))

\* the reverse-SIP computation of goal_planning: the required monthly investment,
\* or the ZeroDivisionError the arithmetic raises
required_sip_of(target_amount, annual_return_rate, time_period_years) ==
    The({IF RIsZero(monthly_rate)
         THEN (IF total_months = 0
               THEN Raise("ZeroDivisionError", "float division by zero")
               ELSE Return(RDiv(target_amount, RInt(total_months))))
         ELSE IF RIsZero(RAdd(RInt(1), monthly_rate)) /\ total_months < 0
         THEN Raise("ZeroDivisionError", "0.0 cannot be raised to a negative power")
         ELSE The({IF RIsZero(factor)
                   THEN Raise("ZeroDivisionError", "float division by zero")
                   ELSE Return(RDiv(target_amount, factor)) :
                   factor \in
                       {RMul(RDiv(RSub(RPow(RAdd(RInt(1), monthly_rate), total_months),
                                       RInt(1)),
                                  monthly_rate),
                             RAdd(RInt(1), monthly_rate))}}) :
         monthly_rate \in {RDiv(RDiv(annual_return_rate, RInt(12)), RInt(100))},
         total_months \in {time_period_years * 12}})

\* POST /api/goal-planning
goal_planning(data) ==
    LET target_amount      == float_of(data, "targetAmount")
        annual_return_rate == float_of(data, "expectedReturn")
        time_period_years  == int_of(data, "timePeriod")
        required_sip == required_sip_of(target_amount.v, annual_return_rate.v,
                                        time_period_years.v)
    IN  IF target_amount.k = "raise" THEN except_Exception(target_amount)
        ELSE IF annual_return_rate.k = "raise" THEN except_Exception(annual_return_rate)
        ELSE IF time_period_years.k = "raise" THEN except_Exception(time_period_years)
        ELSE IF required_sip.k = "raise" THEN except_Exception(required_sip)
        ELSE Answer(Http(200, [success            |-> TRUE,
                               required_sip       |-> round2(required_sip.v),
                               target_amount      |-> target_amount.v,
                               annual_return_rate |-> annual_return_rate.v,
                               time_period_years  |-> time_period_years.v]),
                    <<"required_sip">>, None)

\* a faulty variant of lumpsum_amount_of: the monthly amount itself is invested
lumpsum_amount_of_month(amount, time_period_years) == amount

\* lumpsum_amount = amount * time_period_years * 12
lumpsum_amount_of(amount, time_period_years) ==
    RMul(RMul(amount, RInt(time_period_years)), RInt(12))

\* POST /api/comparison
comparison(data) ==
    LET amount             == float_of(data, "amount")
        annual_return_rate == float_of(data, "expectedReturn")
        time_period_years  == int_of(data, "timePeriod")
        sip_result == calculate_sip(amount.v, annual_return_rate.v, time_period_years.v)
        lumpsum_amount == lumpsum_amount_of(amount.v, time_period_years.v)
        lumpsum_result == calculate_lumpsum(lumpsum_amount, annual_return_rate.v,
                                            time_period_years.v)
    IN  IF amount.k = "raise" THEN except_Exception(amount)
        ELSE IF annual_return_rate.k = "raise" THEN except_Exception(annual_return_rate)
        ELSE IF time_period_years.k = "raise" THEN except_Exception(time_period_years)
        ELSE IF ~sip_result.success \/ ~lumpsum_result.success
        THEN Answer(Failure(500, <<"'total_value'">>),
                    <<"calculate_sip", "calculate_lumpsum">>,
                    Raise("KeyError", "'total_value'"))
        ELSE Answer(Http(200, [success    |-> TRUE,
                               sip        |-> sip_result,
                               lumpsum    |-> lumpsum_result,
                               comparison |-> [sip_advantage |->
                                   RSub(sip_result.total_value,
                                        lumpsum_result.total_value)]]),
                    <<"calculate_sip", "calculate_lumpsum">>, None)

\* ------------------------------------------------------------------------
\* error_handler and log_calculation (api_utils.py)
\* ------------------------------------------------------------------------
\* error_handler(f): out is the outcome of the wrapped f(*args, **kwargs);
\* the result adds the lines written to current_app.logger
error_handler(out) ==
    IF out.k # "raise"
    THEN [resp |-> out.v, caught |-> None, logged |-> <<>>]
    ELSE IF out.type = "ValidationError"
    THEN [resp   |-> Http(400, [success |-> FALSE, error |-> <<out.text>>,
                                error_type |-> "validation_error"]),
          caught |-> out, logged |-> <<>>]
    ELSE IF out.type = "ValueError"
    THEN [resp   |-> Http(400, [success |-> FALSE, error |-> <<"Invalid input values">>,
                                error_type |-> "value_error"]),
          caught |-> out, logged |-> <<>>]
    ELSE [resp   |-> Http(500, [success |-> FALSE,
                                error |-> <<"An unexpected error occurred">>,
                                error_type |-> "server_error"]),
          caught |-> out, logged |-> << <<"Unexpected error: ", out.text>> >>]

\* the names models.py defines, and the names api_utils.py defines at module level
models_names == {"SQLAlchemy", "datetime", "json", "db", "User", "SIPCalculation",
                 "InvestmentGoal", "CalculationHistory"}

api_utils_names == {"wraps", "request", "jsonify", "current_app", "time", "hashlib",
                    "datetime", "timedelta", "re", "ValidationError", "APIUtils",
                    "rate_limit", "error_handler", "log_calculation"}

\* from models import <names>: the first name models.py lacks raises ImportError
RECURSIVE import_from_models(_)
import_from_models(names) ==
    IF names = <<>> THEN Return(None)
    ELSE IF Head(names) \notin models_names
    THEN Raise("ImportError",
               "cannot import name '" \o Head(names) \o "' from 'models'")
    ELSE import_from_models(Tail(names))

\* except Exception of log_calculation: which exceptions the clause catches
ExceptionTypes == {"ValidationError", "ValueError", "TypeError", "KeyError",
                   "ZeroDivisionError", "ImportError", "NameError", "SQLAlchemyError"}

\* a faulty variant of log_calculation_catches: the clause is
\* except SQLAlchemyError, the store's failures only
log_calculation_catches_store(exc) == exc.type = "SQLAlchemyError"

log_calculation_catches(exc) == exc.type \in ExceptionTypes

\* log_calculation(calculation_data, result_data, user_id, session_id) against a
\* store holding the rows db; store says what the session does: "ok",
\* "add_fails" or "commit_fails".  The result is the outcome of the call, the
\* store afterwards and the lines logged.
log_calculation(calculation_data, result_data, user_id, session_id, db, store) ==
    LET imported == <<"db", "SICalculation">>
        import   == import_from_models(imported)
        visible  == {imported[i] : i \in 1..Len(imported)} \cup api_utils_names
        needed   == <<"monthlyInvestment", "expectedReturn", "timePeriod">>
        results  == <<"total_invested", "estimated_returns", "total_value">>
        calculation ==
            [id                 |-> Len(db) + 1,
             user_id            |-> user_id,
             session_id         |-> session_id,
             calculation_type   |-> IF "mode" \in DOMAIN calculation_data
                                    THEN calculation_data["mode"] ELSE "sip",
             monthly_investment |-> calculation_data["monthlyInvestment"],
             annual_return_rate |-> calculation_data["expectedReturn"],
             time_period_years  |-> calculation_data["timePeriod"],
             total_invested     |-> result_data["total_invested"],
             estimated_returns  |-> result_data["estimated_returns"],
             total_value        |-> result_data["total_value"]]
        raised ==
            IF import.k = "raise" THEN import
            ELSE IF "SIPCalculation" \notin visible
            THEN Raise("NameError", "name 'SIPCalculation' is not defined")
            ELSE IF first_missing(needed, calculation_data) # ""
            THEN Raise("KeyError", "'" \o first_missing(needed, calculation_data) \o "'")
            ELSE IF first_missing(results, result_data) # ""
            THEN Raise("KeyError", "'" \o first_missing(results, result_data) \o "'")
            ELSE IF store = "add_fails"
            THEN Raise("SQLAlchemyError", "session add failed")
            ELSE IF store = "commit_fails"
            THEN Raise("SQLAlchemyError", "session commit failed")
            ELSE None
    IN  IF raised = None
        THEN [out |-> Return(calculation.id), db |-> Append(db, calculation),
              logged |-> <<>>]
        ELSE IF log_calculation_catches(raised)
        THEN [out |-> Return(None), db |-> db,
              logged |-> << <<"Failed to log calculation: ", raised.text>> >>]
        ELSE [out |-> raised, db |-> db, logged |-> <<>>]

\* ------------------------------------------------------------------------
\* The calls made of the program
\* ------------------------------------------------------------------------
MaxYears == 3

Missing == [kind |-> "missing"]

\* the dict holding the fields of f that are not Missing
DictOf(f) == [name \in {n \in DOMAIN f : f[n] # Missing} |-> f[name]]

\* values on and just beyond the configured bounds (one unit for the amount and
\* the period, 0.01 for the rate), for the validated calls
AmountVals == {JNum(MIN_INVESTMENT - 1), JNum(MIN_INVESTMENT), JNum(MAX_INVESTMENT),
               JNum(MAX_INVESTMENT + 1), JStr("abc"), JNull, JList, Missing}
RateVals   == {JReal(RFrac(MIN_RETURN_RATE * 100 - 1, 100)), JNum(MIN_RETURN_RATE),
               JNum(MAX_RETURN_RATE), JReal(RFrac(MAX_RETURN_RATE * 100 + 1, 100)),
               JStr("abc"), JNull, JList, Missing}
PeriodVals == {JNum(MIN_TIME_PERIOD - 1), JNum(MIN_TIME_PERIOD), JNum(MAX_TIME_PERIOD),
               JNum(MAX_TIME_PERIOD + 1), JStr("abc"), JNull, JList, Missing}
ModeVals   == {JStr("sip"), JStr("lumpsum"), JStr("other"), Missing}

ValidatedData ==
    {DictOf([monthlyInvestment |-> a, expectedReturn |-> r, timePeriod |-> t, mode |-> m]) :
        a \in AmountVals, r \in RateVals, t \in PeriodVals, m \in ModeVals}

\* small values for the endpoints that validate nothing
SmallAmountVals == {JNum(0), JNum(MIN_INVESTMENT - 1), JNum(1000), JStr("abc"), JNull,
                    Missing}
SmallRateVals   == {JNum(-1200), JNum(-100), JNum(0), JNum(12), JNum(MAX_RETURN_RATE + 1),
                    JStr("abc"), Missing}
SmallPeriodVals == {JNum(y) : y \in -1..MaxYears} \cup {JStr("abc"), Missing}

BreakdownData ==
    {DictOf([monthlyInvestment |-> a, expectedReturn |-> r, timePeriod |-> t]) :
        a \in SmallAmountVals, r \in SmallRateVals, t \in SmallPeriodVals} \cup {None}

GoalData ==
    {DictOf([targetAmount |-> a, expectedReturn |-> r, timePeriod |-> t]) :
        a \in SmallAmountVals, r \in SmallRateVals, t \in SmallPeriodVals} \cup {None}

ComparisonData ==
    {DictOf([amount |-> a, expectedReturn |-> r, timePeriod |-> t]) :
        a \in SmallAmountVals, r \in SmallRateVals, t \in SmallPeriodVals} \cup {None}

\* arguments of the engine's functions
EngineAmounts == {RInt(0), RFrac(1, 8), RInt(1), RInt(2), RInt(500), RFrac(500001, 1000),
                  RInt(5000)}
EngineRates   == {RInt(-2400), RInt(-1200), RInt(-1100), RInt(-900), RInt(-100), RInt(-99), RInt(-12),
                  RInt(0), RInt(1), RInt(12), RInt(25)}
EngineYears   == -1..MaxYears

EngineArgs == [m : EngineAmounts, r : EngineRates, y : EngineYears]

\* what a function wrapped by error_handler may do
WrappedOutcomes ==
    {Return(Http(200, [success |-> TRUE])),
     ValidationError("Missing required field: mode"),
     Raise("ValueError", "could not convert string to float: 'abc'"),
     Raise("TypeError", "'NoneType' object is not subscriptable"),
     Raise("KeyError", "'total_value'"),
     Raise("ZeroDivisionError", "float division by zero")}

\* arguments of log_calculation: a validated request, a result, the store's mood
LoggedData ==
    {[monthlyInvestment |-> RInt(5000), expectedReturn |-> RInt(12), timePeriod |-> 1,
      mode |-> "lumpsum"],
     [monthlyInvestment |-> RInt(500), expectedReturn |-> RInt(1), timePeriod |-> 2],
     [expectedReturn |-> RInt(1), timePeriod |-> 2, mode |-> "sip"]}

ResultOf(d) ==
    IF "monthlyInvestment" \notin DOMAIN d THEN [success |-> FALSE, error |-> "no amount"]
    ELSE IF "mode" \in DOMAIN d /\ d["mode"] = "lumpsum"
    THEN calculate_lumpsum(d["monthlyInvestment"], d["expectedReturn"], d["timePeriod"])
    ELSE calculate_sip(d["monthlyInvestment"], d["expectedReturn"], d["timePeriod"])

StoreMoods == {"ok", "add_fails", "commit_fails"}

Requests ==
    {[op |-> "calculate", data |-> d] : d \in ValidatedData \cup {None}}
    \cup {[op |-> "validate_sip_parameters", data |-> d] : d \in ValidatedData}
    \cup {[op |-> "get_breakdown", data |-> d] : d \in BreakdownData}
    \cup {[op |-> "goal_planning", data |-> d] : d \in GoalData}
    \cup {[op |-> "comparison", data |-> d] : d \in ComparisonData}
    \cup {[op |-> "calculate_sip", args |-> a] : a \in EngineArgs}
    \cup {[op |-> "calculate_lumpsum", args |-> a] : a \in EngineArgs}
    \cup {[op |-> "generate_yearly_breakdown", args |-> a] : a \in EngineArgs}
    \cup {[op |-> "error_handler", out |-> o] : o \in WrappedOutcomes}
    \cup {[op |-> "log_calculation", data |-> d, result |-> ResultOf(d), store |-> s] :
             d \in LoggedData, s \in StoreMoods}

\* ------------------------------------------------------------------------
\* State
\* ------------------------------------------------------------------------
VARIABLES
    req,      \* the call being served
    pc,       \* "call" before the program has acted on req, "done" after
    resp,     \* the HTTP response or the outcome of the call
    ran,      \* the engine functions the call ran, in order
    caught,   \* the exception an except clause caught, None if none
    logged,   \* the lines written to current_app.logger
    db,       \* the rows of the persistence store
    prev      \* the exchange (req, resp) the client built req from, None if none

vars == <<req, pc, resp, ran, caught, logged, db, prev>>

Init ==
    /\ req \in Requests
    /\ pc = "call"
    /\ resp = None
    /\ ran = <<>>
    /\ caught = None
    /\ logged = <<>>
    /\ db = <<>>
    /\ prev = None

\* POST /api/calculate
Calculate ==
    /\ pc = "call"
    /\ req.op = "calculate"
    /\ \E answer \in {calculate(req.data)} :
           /\ resp' = answer.resp
           /\ ran' = answer.ran
           /\ caught' = answer.caught
    /\ pc' = "done"
    /\ UNCHANGED <<req, logged, db, prev>>

\* POST /api/breakdown
GetBreakdown ==
    /\ pc = "call"
    /\ req.op = "get_breakdown"
    /\ \E answer \in {get_breakdown(req.data)} :
           /\ resp' = answer.resp
           /\ ran' = answer.ran
           /\ caught' = answer.caught
    /\ pc' = "done"
    /\ UNCHANGED <<req, logged, db, prev>>

\* POST /api/goal-planning
GoalPlanning ==
    /\ pc = "call"
    /\ req.op = "goal_planning"
    /\ \E answer \in {goal_planning(req.data)} :
           /\ resp' = answer.resp
           /\ ran' = answer.ran
           /\ caught' = answer.caught
    /\ pc' = "done"
    /\ UNCHANGED <<req, logged, db, prev>>

\* POST /api/comparison
Comparison ==
    /\ pc = "call"
    /\ req.op = "comparison"
    /\ \E answer \in {comparison(req.data)} :
           /\ resp' = answer.resp
           /\ ran' = answer.ran
           /\ caught' = answer.caught
    /\ pc' = "done"
    /\ UNCHANGED <<req, logged, db, prev>>

\* a call of the validator: resp is its outcome
ValidateSipParameters ==
    /\ pc = "call"
    /\ req.op = "validate_sip_parameters"
    /\ resp' = validate_sip_parameters(req.data)
    /\ ran' = <<>>
    /\ pc' = "done"
    /\ UNCHANGED <<req, caught, logged, db, prev>>

\* a call of SIPCalculator.calculate_sip
CalculateSip ==
    /\ pc = "call"
    /\ req.op = "calculate_sip"
    /\ resp' = Return(calculate_sip(req.args.m, req.args.r, req.args.y))
    /\ ran' = <<"calculate_sip">>
    /\ pc' = "done"
    /\ UNCHANGED <<req, caught, logged, db, prev>>

\* a call of SIPCalculator.calculate_lumpsum
CalculateLumpsum ==
    /\ pc = "call"
    /\ req.op = "calculate_lumpsum"
    /\ resp' = Return(calculate_lumpsum(req.args.m, req.args.r, req.args.y))
    /\ ran' = <<"calculate_lumpsum">>
    /\ pc' = "done"
    /\ UNCHANGED <<req, caught, logged, db, prev>>

\* a call of SIPCalculator.generate_yearly_breakdown
GenerateYearlyBreakdown ==
    /\ pc = "call"
    /\ req.op = "generate_yearly_breakdown"
    /\ resp' = Return(generate_yearly_breakdown(req.args.m, req.args.r, req.args.y))
    /\ ran' = <<"generate_yearly_breakdown">>
    /\ pc' = "done"
    /\ UNCHANGED <<req, caught, logged, db, prev>>

\* a call of a function wrapped by error_handler
ErrorHandler ==
    /\ pc = "call"
    /\ req.op = "error_handler"
    /\ \E h \in {error_handler(req.out)} :
           /\ resp' = h.resp
           /\ caught' = h.caught
           /\ logged' = logged \o h.logged
    /\ pc' = "done"
    /\ UNCHANGED <<req, ran, db, prev>>

\* a call of log_calculation
LogCalculation ==
    /\ pc = "call"
    /\ req.op = "log_calculation"
    /\ \E l \in {log_calculation(req.data, req.result, None, "session", db, req.store)} :
           /\ resp' = l.out
           /\ db' = l.db
           /\ logged' = logged \o l.logged
    /\ pc' = "done"
    /\ UNCHANGED <<req, ran, caught, prev>>

\* the client posts the total_value calculate_sip returned, with the same rate
\* and period, to /api/goal-planning
PlanFromResult ==
    /\ pc = "done"
    /\ req.op = "calculate_sip"
    /\ resp.v.success
    /\ prev' = [req |-> req, resp |-> resp]
    /\ req' = [op |-> "goal_planning",
               data |-> [targetAmount   |-> JReal(resp.v.total_value),
                         expectedReturn |-> JReal(req.args.r),
                         timePeriod     |-> JNum(req.args.y)]]
    /\ pc' = "call"
    /\ resp' = None
    /\ ran' = <<>>
    /\ UNCHANGED <<caught, logged, db>>

Next ==
    \/ Calculate
    \/ GetBreakdown
    \/ GoalPlanning
    \/ Comparison
    \/ ValidateSipParameters
    \/ CalculateSip
    \/ CalculateLumpsum
    \/ GenerateYearlyBreakdown
    \/ ErrorHandler
    \/ LogCalculation
    \/ PlanFromResult

Spec == Init /\ [][Next]_vars

\* ------------------------------------------------------------------------
\* Properties
\* ------------------------------------------------------------------------
\* the three numeric fields every validated request must hold
NumericFields == <<"monthlyInvestment", "expectedReturn", "timePeriod">>

HoldsAll(fields, data) == \A i \in 1..Len(fields) : fields[i] \in DOMAIN data

\* a number outside lo..hi
NumberOutside(v, lo, hi) == v.kind = "num" /\ (RLt(v.v, RInt(lo)) \/ RLt(RInt(hi), v.v))

ValidatorDone == pc = "done" /\ req.op = "validate_sip_parameters"

\* which check the validator's outcome reports
Reported(out) ==
    IF out.k = "return" THEN "accepted"
    ELSE IF out.type # "ValidationError" THEN out.type
    ELSE IF out.text \in {"Missing required field: " \o NumericFields[i] : i \in 1..3}
    THEN "missing field"
    ELSE IF out.text = "Invalid numeric values provided" THEN "invalid numeric"
    ELSE IF out.text \in {"Monthly investment must be at least ₹500",
                          "Monthly investment cannot exceed ₹100000"}
    THEN "range of monthlyInvestment"
    ELSE IF out.text \in {"Expected return must be at least 1.0%",
                          "Expected return cannot exceed 25.0%"}
    THEN "range of expectedReturn"
    ELSE IF out.text \in {"Time period must be at least 1 year",
                          "Time period cannot exceed 50 years"}
    THEN "range of timePeriod"
    ELSE IF out.text = "Mode must be either \"sip\" or \"lumpsum\"" THEN "mode"
    ELSE "other"

\* the fault of one field taken alone: its conversion first, then its range
FieldFault(data, field, lo, hi) ==
    IF data[field].kind \in {"null", "list"} THEN "TypeError"
    ELSE IF data[field].kind = "str" THEN "invalid numeric"
    ELSE IF NumberOutside(data[field], lo, hi) THEN "range of " \o field
    ELSE ""

\* the first failing check when each field is converted and range-checked in
\* turn: amount, then rate, then period, then mode
FieldByField(data) ==
    LET amount == FieldFault(data, "monthlyInvestment", 500, 100000)
        rate   == FieldFault(data, "expectedReturn", 1, 25)
        period == FieldFault(data, "timePeriod", 1, 50)
    IN  IF ~HoldsAll(NumericFields, data) THEN "missing field"
        ELSE IF amount # "" THEN amount
        ELSE IF rate # "" THEN rate
        ELSE IF period # "" THEN period
        ELSE IF "mode" \in DOMAIN data /\ data["mode"] \notin {JStr("sip"), JStr("lumpsum")}
        THEN "mode"
        ELSE "accepted"

\* C1 as stated: when every required field is present, one field is a
\* non-numeric string and another is a number out of its range, the validator
\* raises the invalid-numeric error, never a range error (all three values are
\* parsed before any range is checked).
C1_NumericBeforeRange ==
    (/\ ValidatorDone
     /\ HoldsAll(NumericFields, req.data)
     /\ \A i \in 1..3 : req.data[NumericFields[i]].kind \in {"num", "str"}
     /\ \E i \in 1..3 : req.data[NumericFields[i]].kind = "str"
     /\ \/ NumberOutside(req.data["monthlyInvestment"], 500, 100000)
        \/ NumberOutside(req.data["expectedReturn"], 1, 25)
        \/ NumberOutside(req.data["timePeriod"], 1, 50))
    => Reported(resp) = "invalid numeric"

\* C1 amended: the validator reports the first failing check in the order
\* missing field, then for the amount, the rate and the period in turn the
\* field's conversion followed by the field's range check, then the mode; a
\* non-numeric string fails its conversion with the invalid-numeric error, a
\* null or a list with the TypeError of the conversion.
C1_FieldByFieldOrder ==
    ValidatorDone => Reported(resp) = FieldByField(req.data)

\* an out-of-range amount is reported although the rate is not a number
C1_RangeBeforeLaterParse ==
    /\ ValidatorDone
    /\ req.data = [monthlyInvestment |-> JNum(499), expectedReturn |-> JStr("abc"),
                   timePeriod |-> JNum(51)]
    /\ resp = ValidationError("Monthly investment must be at least ₹500")

\* the three fields are numbers, each on one of its bounds
OnBounds(data) ==
    /\ HoldsAll(NumericFields, data)
    /\ data["monthlyInvestment"] \in {JNum(500), JNum(100000)}
    /\ data["expectedReturn"] \in {JNum(1), JNum(25)}
    /\ data["timePeriod"] \in {JNum(1), JNum(50)}

\* the three fields are numbers, one of them just outside one of its bounds
JustOutside(data) ==
    /\ HoldsAll(NumericFields, data)
    /\ \A i \in 1..3 : data[NumericFields[i]].kind = "num"
    /\ \/ data["monthlyInvestment"] \in {JNum(499), JNum(100001)}
       \/ data["expectedReturn"] \in {JReal(RFrac(99, 100)), JReal(RFrac(2501, 100))}
       \/ data["timePeriod"] \in {JNum(0), JNum(51)}

ModeIn(data) == "mode" \in DOMAIN data /\ data["mode"] \in {JStr("sip"), JStr("lumpsum")}

\* C2: with the default bounds, POST /api/calculate and validate_sip_parameters
\* accept a request whose values are on the bounds (500 or 100000, 1 or 25,
\* 1 or 50) and reject, with 400 on the endpoint and a ValidationError from the
\* validator, a request with a value just outside a bound (499 or 100001, 0.99
\* or 25.01, 0 or 51); the endpoint runs no calculation for a rejected request.
C2_Boundaries ==
    /\ (pc = "done" /\ req.op = "calculate" /\ req.data # None) =>
          /\ (OnBounds(req.data) /\ ModeIn(req.data)) =>
                 (resp.status = 200 /\ resp.body.success /\ Len(ran) = 1)
          /\ JustOutside(req.data) =>
                 (resp.status = 400 /\ ~resp.body.success /\ ran = <<>>)
    /\ ValidatorDone =>
          /\ (OnBounds(req.data) /\ ("mode" \in DOMAIN req.data => ModeIn(req.data))) =>
                 resp.k = "return"
          /\ JustOutside(req.data) =>
                 (resp.k = "raise" /\ resp.type = "ValidationError")

\* the endpoint has accepted the smallest amount with the longest period
C2_AcceptedOnBounds ==
    /\ pc = "done"
    /\ req.op = "calculate"
    /\ req.data = [monthlyInvestment |-> JNum(500), expectedReturn |-> JNum(25),
                   timePeriod |-> JNum(50), mode |-> JStr("sip")]
    /\ resp.status = 200
    /\ resp.body.success
    /\ ran = <<"calculate_sip">>

\* the fields each POST endpoint requires
RequiredFields(op) ==
    CASE op = "calculate" -> <<"monthlyInvestment", "expectedReturn", "timePeriod", "mode">>
      [] op = "get_breakdown" -> NumericFields
      [] op = "goal_planning" -> <<"targetAmount", "expectedReturn", "timePeriod">>
      [] op = "comparison" -> <<"amount", "expectedReturn", "timePeriod">>

PostEndpoints == {"calculate", "get_breakdown", "goal_planning", "comparison"}

\* a validation fault of a request body: a required field is missing, the rate
\* or the period is a number out of its range, or the mode is wrong
ValidationFault(op, data) ==
    \/ ~HoldsAll(RequiredFields(op), data)
    \/ "expectedReturn" \in DOMAIN data /\ NumberOutside(data["expectedReturn"], 1, 25)
    \/ "timePeriod" \in DOMAIN data /\ NumberOutside(data["timePeriod"], 1, 50)
    \/ op = "calculate" /\ "mode" \in DOMAIN data /\ ~ModeIn(data)

\* C3: on each of the four POST endpoints a request with a validation fault is
\* answered with status 400 and a body {success: false, error: ...}.
C3_ValidationFaultIs400 ==
    (/\ pc = "done"
     /\ req.op \in PostEndpoints
     /\ req.data # None
     /\ ValidationFault(req.op, req.data))
    => (resp.status = 400 /\ ~resp.body.success)

\* C4: an exception that is neither a ValidationError nor a ValueError, caught
\* by an endpoint or by error_handler, is answered with status 500 and an error
\* message that does not hold the text of the exception.
C4_NoExceptionText ==
    (/\ pc = "done"
     /\ caught # None
     /\ caught.type \notin {"ValidationError", "ValueError"})
    => /\ resp.status = 500
       /\ \A i \in 1..Len(resp.body.error) : resp.body.error[i] # caught.text

\* the years of a call of an engine operation, when they are a number
EngineYearsOf(r) ==
    IF r.op \in {"calculate_sip", "calculate_lumpsum", "generate_yearly_breakdown"}
    THEN Return(r.args.y)
    ELSE IF /\ r.op = "goal_planning"
            /\ r.data # None
            /\ HoldsAll(RequiredFields(r.op), r.data)
            /\ \A i \in 1..3 : r.data[RequiredFields(r.op)[i]].kind = "num"
    THEN py_int(r.data["timePeriod"])
    ELSE None

\* the outcome of an engine operation is an error
EngineFailed(r, out) ==
    CASE r.op \in {"calculate_sip", "calculate_lumpsum"} ->
             out.k = "raise" \/ ~out.v.success
      [] r.op = "generate_yearly_breakdown" -> out.k = "raise"
      [] r.op = "goal_planning" -> out.status # 200

\* C5: calculate_sip, calculate_lumpsum, generate_yearly_breakdown and the
\* reverse-SIP computation of /api/goal-planning fail whenever years <= 0; none
\* returns a success result for such input.
C5_NonPositiveYearsFail ==
    (/\ pc = "done"
     /\ EngineYearsOf(req) # None
     /\ EngineYearsOf(req).v <= 0)
    => EngineFailed(req, resp)

LogDone == pc = "done" /\ req.op = "log_calculation"

\* C6: log_calculation never raises to its caller; when no record was stored
\* the failure has been logged and the call has returned None.
C6_LogNeverRaises ==
    LogDone =>
        /\ resp.k = "return"
        /\ db = <<>> => (resp = Return(None) /\ Len(logged) = 1)

\* the import has failed, the failure is logged and None returned
C6_FailureSwallowed ==
    /\ LogDone
    /\ resp = Return(None)
    /\ db = <<>>
    /\ logged = << <<"Failed to log calculation: ",
                     "cannot import name 'SICalculation' from 'models'">> >>

\* C7: when the store accepts the write, log_calculation stores one record
\* carrying the request's amount, rate and period and the three result values,
\* and returns the identifier of that record, which is not None.
C7_AcceptedWriteReturnsId ==
    (/\ LogDone
     /\ req.store = "ok"
     /\ HoldsAll(NumericFields, req.data)
     /\ req.result.success)
    => /\ resp.k = "return"
       /\ resp.v # None
       /\ Len(db) = 1
       /\ db[1].id = resp.v
       /\ db[1].monthly_investment = req.data["monthlyInvestment"]
       /\ db[1].annual_return_rate = req.data["expectedReturn"]
       /\ db[1].time_period_years = req.data["timePeriod"]
       /\ db[1].total_invested = req.result["total_invested"]
       /\ db[1].estimated_returns = req.result["estimated_returns"]
       /\ db[1].total_value = req.result["total_value"]

BreakdownDone == pc = "done" /\ req.op = "generate_yearly_breakdown"

\* C8: for monthly_investment >= 0 and years >= 1, generate_yearly_breakdown
\* returns `years` entries whose year fields are 1, 2, ..., years in order,
\* whose total_invested never decreases from an entry to the next and, when the
\* annual rate is >= 0, whose total_value never decreases either.
C8_BreakdownOrdered ==
    (/\ BreakdownDone
     /\ RLe(RZero, req.args.m)
     /\ req.args.y >= 1)
    => /\ resp.k = "return"
       /\ DOMAIN resp.v = 1..req.args.y
       /\ \A k \in 1..req.args.y : resp.v[k].year = k
       /\ \A k \in 1..(req.args.y - 1) :
              /\ RLe(resp.v[k].total_invested, resp.v[k + 1].total_invested)
              /\ RLe(RZero, req.args.r) =>
                     RLe(resp.v[k].total_value, resp.v[k + 1].total_value)

\* a breakdown of two years or more whose value grows from year 1 to year 2
C8_GrowingBreakdown ==
    /\ BreakdownDone
    /\ req.args.m = RInt(5000)
    /\ req.args.r = RInt(12)
    /\ req.args.y >= 2
    /\ RLt(resp.v[1].total_invested, resp.v[2].total_invested)
    /\ RLt(resp.v[1].total_value, resp.v[2].total_value)

ComparisonDone == pc = "done" /\ req.op = "comparison"

\* C9: a successful POST /api/comparison with amount a, rate r and period y
\* answers sip = calculate_sip(a, r, y) and lumpsum = calculate_lumpsum(a * y * 12,
\* r, y), whose total_invested are equal, and comparison.sip_advantage =
\* sip.total_value - lumpsum.total_value.
C9_ComparisonParts ==
    (ComparisonDone /\ resp.status = 200) =>
        LET a == req.data["amount"].v
            r == req.data["expectedReturn"].v
            y == py_int(req.data["timePeriod"]).v
        IN  /\ resp.body.sip = calculate_sip(a, r, y)
            /\ resp.body.lumpsum = calculate_lumpsum(RMul(a, RInt(y * 12)), r, y)
            /\ REq(resp.body.sip.total_invested, resp.body.lumpsum.total_invested)
            /\ REq(resp.body.comparison.sip_advantage,
                   RSub(resp.body.sip.total_value, resp.body.lumpsum.total_value))

\* a comparison the lumpsum wins: the advantage of the SIP is negative
C9_NegativeAdvantage ==
    /\ ComparisonDone
    /\ req.data = [amount |-> JNum(1000), expectedReturn |-> JNum(12),
                   timePeriod |-> JNum(2)]
    /\ resp.status = 200
    /\ resp.body.comparison.sip_advantage.sg < 0

\* goal_planning has answered a request built from a result of calculate_sip
RoundTripDone == pc = "done" /\ req.op = "goal_planning" /\ prev # None

\* required_sip is within 0.01 of the monthly investment the result came from
RoundTripClose ==
    /\ resp.status = 200
    /\ RLe(RAbs(RSub(resp.body.required_sip, prev.req.args.m)), RFrac(1, 100))

\* C10 as stated: for m > 0, r # 0 and y >= 1, the reverse-SIP computation of
\* /api/goal-planning applied to calculate_sip(m, r, y).total_value with the
\* same r and y yields a required_sip within 0.01 of m.
C10_RoundTrip ==
    (/\ RoundTripDone
     /\ RLt(RZero, prev.req.args.m)
     /\ ~RIsZero(prev.req.args.r)
     /\ prev.req.args.y >= 1)
    => RoundTripClose

\* C10 amended: the same for m > 0, y >= 1 and a rate r # 0 above -100.
C10_RoundTripAboveMinus100 ==
    (/\ RoundTripDone
     /\ RLt(RZero, prev.req.args.m)
     /\ ~RIsZero(prev.req.args.r)
     /\ RLt(RInt(-100), prev.req.args.r)
     /\ prev.req.args.y >= 1)
    => RoundTripClose

\* 5000 a month at 12% over a year is recovered from its total_value
C10_Recovered ==
    /\ RoundTripDone
    /\ prev.req.args = [m |-> RInt(5000), r |-> RInt(12), y |-> 1]
    /\ prev.resp.v.success
    /\ resp.status = 200
    /\ REq(resp.body.required_sip, RInt(5000))

\* all three fields of a goal-planning or breakdown body are numbers
AllNumbers(fields, data) ==
    /\ data # None
    /\ HoldsAll(fields, data)
    /\ \A i \in 1..Len(fields) : data[fields[i]].kind = "num"

\* a done call whose annual rate is exactly 0
ZeroRateEngineCall(op) == pc = "done" /\ req.op = op /\ RIsZero(req.args.r)

ZeroRatePlan ==
    /\ pc = "done"
    /\ req.op = "goal_planning"
    /\ AllNumbers(RequiredFields("goal_planning"), req.data)
    /\ RIsZero(req.data["expectedReturn"].v)
    /\ py_int(req.data["timePeriod"]).v >= 1

\* C11 as stated: at rate 0, calculate_sip(m, 0, y) returns total_value =
\* total_invested = m*12*y and estimated_returns = 0, entry k of the breakdown
\* has total_value = m*12*k, and goal-planning answers targetAmount / (12*y)
\* for y >= 1.
C11_ZeroRateLinear ==
    /\ ZeroRateEngineCall("calculate_sip") =>
          /\ resp.v.success
          /\ REq(resp.v.total_value, RMul(req.args.m, RInt(12 * req.args.y)))
          /\ REq(resp.v.total_invested, RMul(req.args.m, RInt(12 * req.args.y)))
          /\ RIsZero(resp.v.estimated_returns)
    /\ ZeroRateEngineCall("generate_yearly_breakdown") =>
          \A k \in DOMAIN resp.v :
              REq(resp.v[k].total_value, RMul(req.args.m, RInt(12 * k)))
    /\ ZeroRatePlan =>
          /\ resp.status = 200
          /\ REq(resp.body.required_sip,
                 RDiv(req.data["targetAmount"].v,
                      RInt(12 * py_int(req.data["timePeriod"]).v)))

\* C11 amended: at rate 0 no division by the monthly rate is evaluated and the
\* figures are the linear ones rounded to 2 decimal places: calculate_sip(m, 0, y)
\* returns total_value = total_invested = round(m*12*y, 2) and estimated_returns
\* = 0, entry k of the breakdown has total_value = round(m*12*k, 2), and
\* goal-planning answers round(targetAmount / (12*y), 2) for y >= 1.
C11_ZeroRateLinearRounded ==
    /\ ZeroRateEngineCall("calculate_sip") =>
          /\ resp.v.success
          /\ resp.v.total_value = round2(RMul(req.args.m, RInt(12 * req.args.y)))
          /\ resp.v.total_invested = resp.v.total_value
          /\ RIsZero(resp.v.estimated_returns)
    /\ ZeroRateEngineCall("generate_yearly_breakdown") =>
          \A k \in DOMAIN resp.v :
              resp.v[k].total_value = round2(RMul(req.args.m, RInt(12 * k)))
    /\ ZeroRatePlan =>
          /\ resp.status = 200
          /\ resp.body.required_sip =
                 round2(RDiv(req.data["targetAmount"].v,
                             RInt(12 * py_int(req.data["timePeriod"]).v)))

\* 5000 a month for 2 years at rate 0 is worth the 120000 invested
C11_LinearSum ==
    /\ ZeroRateEngineCall("calculate_sip")
    /\ req.args.m = RInt(5000)
    /\ req.args.y = 2
    /\ resp.v.success
    /\ REq(resp.v.total_value, RInt(120000))
    /\ REq(resp.v.total_invested, RInt(120000))
    /\ RIsZero(resp.v.estimated_returns)

\* every required field is present and one of them is not a number
SomeNonNumeric(data) ==
    /\ HoldsAll(NumericFields, data)
    /\ \E i \in 1..3 : data[NumericFields[i]].kind # "num"

\* no field that is a number is out of its range
NumbersInRange(data) ==
    /\ ~NumberOutside(data["monthlyInvestment"], 500, 100000)
    /\ ~NumberOutside(data["expectedReturn"], 1, 25)
    /\ ~NumberOutside(data["timePeriod"], 1, 50)

\* C12: a value of the amount, the rate or the period that is not a number (a
\* string of letters, null, a list) makes validate_sip_parameters raise the
\* ValidationError 'Invalid numeric values provided', and no other exception
\* leaves the validator.  Stated for requests whose numeric fields are all
\* within range, so that no range check can fail before the conversion.
C12_NonNumericIsValidationError ==
    (/\ ValidatorDone
     /\ SomeNonNumeric(req.data)
     /\ NumbersInRange(req.data))
    => resp = ValidationError("Invalid numeric values provided")

\* the three figures of a breakdown entry are those of a calculate_sip result
SameFigures(entry, result) ==
    /\ result.success
    /\ entry.total_invested = result.total_invested
    /\ entry.estimated_returns = result.estimated_returns
    /\ entry.total_value = result.total_value

\* C13: for years y >= 1 and every k in 1..y, entry k of
\* generate_yearly_breakdown(m, r, y) has the total_invested, estimated_returns
\* and total_value of calculate_sip(m, r, k); the last entry of a /api/breakdown
\* response has the figures /api/calculate computes in mode sip for the same
\* amount, rate and period.
C13_BreakdownMatchesSip ==
    /\ (BreakdownDone /\ req.args.y >= 1) =>
          \A k \in 1..req.args.y :
              SameFigures(resp.v[k], calculate_sip(req.args.m, req.args.r, k))
    /\ (/\ pc = "done"
        /\ req.op = "get_breakdown"
        /\ resp.status = 200
        /\ py_int(req.data["timePeriod"]).v >= 1) =>
          SameFigures(resp.body.breakdown[py_int(req.data["timePeriod"]).v],
                      calculate_sip(req.data["monthlyInvestment"].v,
                                    req.data["expectedReturn"].v,
                                    py_int(req.data["timePeriod"]).v))

\* entry 2 of a breakdown at 12% carries the returns calculate_sip gives for 2 years
C13_SecondYearMatches ==
    /\ BreakdownDone
    /\ req.args.m = RInt(5000)
    /\ req.args.r = RInt(12)
    /\ req.args.y >= 2
    /\ RLt(RZero, resp.v[2].estimated_returns)
    /\ SameFigures(resp.v[2], calculate_sip(RInt(5000), RInt(12), 2))

\* which check a 400 response of /api/calculate reports
EndpointReported(response) ==
    IF response.body.error[1] = "Missing required field: " THEN "missing field"
    ELSE IF response.body.error = <<"Invalid input values">> THEN "invalid numeric"
    ELSE IF response.body.error = <<"Monthly investment must be between ₹500 and ₹100,000">>
    THEN "range of monthlyInvestment"
    ELSE IF response.body.error = <<"Expected return must be between 1% and 25%">>
    THEN "range of expectedReturn"
    ELSE IF response.body.error = <<"Time period must be between 1 and 50 years">>
    THEN "range of timePeriod"
    ELSE IF response.body.error = <<"Invalid mode. Must be \"sip\" or \"lumpsum\"">>
    THEN "mode"
    ELSE "other"

\* C14: on a request that carries a mode field, POST /api/calculate answers 400
\* exactly when validate_sip_parameters raises ValidationError on the same body,
\* both report the same first failing check, and an accepted request is computed
\* with the amount, rate, period and mode the validator returns.
C14_EndpointMatchesValidator ==
    (/\ pc = "done"
     /\ req.op = "calculate"
     /\ req.data # None
     /\ "mode" \in DOMAIN req.data)
    => \A v \in {validate_sip_parameters(req.data)} :
           /\ resp.status = 400 <=> (v.k = "raise" /\ v.type = "ValidationError")
           /\ resp.status = 400 => EndpointReported(resp) = Reported(v)
           /\ resp.status = 200 =>
                  /\ v.k = "return"
                  /\ resp.body.annual_return_rate = v.v.expectedReturn
                  /\ resp.body.time_period_years = v.v.timePeriod
                  /\ ran = <<"calculate_" \o v.v.mode>>
                  /\ IF v.v.mode = "sip"
                     THEN resp.body.monthly_investment = v.v.monthlyInvestment
                     ELSE resp.body.lumpsum_amount = v.v.monthlyInvestment

====
